---- MODULE Spec2Model ----
(***************************************************************************)
(* Model of the Prolific cost report scripts: prolific_cost_report.py      *)
(* ("report") and prolific_project_cost.py ("cost").  One run of main():   *)
(* resolve the project, page through the study listing, then for every     *)
(* listed study fetch its details, derive the metrics, fetch its cost and  *)
(* write one CSV row.  Every HTTP request either succeeds or is answered   *)
(* with a non-success status (raise_for_status raises HTTPError).          *)
(***************************************************************************)
EXTENDS Integers, Sequences, FiniteSets

\* ---- bounds of the model ----
MaxPages == 2
MaxPageSize == 2
NumIds == 2
MaxReward == 1
MaxMinutes == 1

\* ---- the remote API ----
None == 0
StudyIds == 1..NumIds
Programs == {"report", "cost"}

RECURSIVE SeqsUpTo(_, _)
SeqsUpTo(S, n) ==
    IF n = 0 THEN {<<>>}
    ELSE LET shorter == SeqsUpTo(S, n - 1)
         IN shorter \cup {Append(q, x) : q \in {r \in shorter : Len(r) = n - 1}, x \in S}

\* a study summary of the listing; only s["id"] takes part in the control flow
StudySummaries == [id : StudyIds]

\* the results lists a listing page can carry
PageResults == SeqsUpTo(StudySummaries, MaxPageSize)

\* the next link of page k in a chain of n pages: the URL of page k+1, absent on the last
NextLink(k, n) == IF k < n THEN k + 1 ELSE None

\* every finite chain of 1..MaxPages listing pages; the URL of page k is k
PageChains ==
    UNION {{[k \in 1..n |-> [results |-> rs[k], next |-> NextLink(k, n)]] :
              rs \in [1..n -> PageResults]} : n \in 1..MaxPages}

\* the detail payloads: reward in minor units, estimated completion time in minutes
DetailPayloads ==
    [reward : (-MaxReward)..MaxReward,
     estimated_completion_time : (-MaxMinutes)..MaxMinutes]

\* ---- exact arithmetic for the derived metrics ----
Abs(x) == IF x < 0 THEN -x ELSE x

RECURSIVE GCD(_, _)
GCD(a, b) == IF b = 0 THEN a ELSE GCD(b, a % b)

\* the quotient n/d (d # 0) as a fraction in lowest terms with a positive denominator
Quot(n, d) ==
    LET g == GCD(Abs(n), Abs(d))
        s == IF d < 0 THEN -1 ELSE 1
    IN [n |-> (s * n) \div g, d |-> (s * d) \div g]

Zero == [n |-> 0, d |-> 1]

\* a / b for fractions a, b with b # 0
Divide(a, b) == Quot(a.n * b.d, a.d * b.n)

reward_usd(d) == Quot(d.reward, 100)

est_hours(d) == Quot(d.estimated_completion_time, 60)

intended_rph_positive_guard(r, e) == IF e.n > 0 THEN Divide(r, e) ELSE Zero

\* (reward_usd / est_hours) if est_hours else 0
intended_rph_of(r, e) == IF e.n # 0 THEN Divide(r, e) ELSE Zero

\* ---- state of one run ----
VARIABLES
    prog,          \* which script runs: "report" or "cost"
    pages,         \* the listing pages the API serves, pages[u] is the payload at URL u
    pc,            \* position of main(): "project", "list", "detail", "cost", "done", "aborted"
    url,           \* fetch_studies: the URL of the next listing request, None when exhausted
    fetched,       \* fetch_studies: its local list `studies`
    studies,       \* main: the list returned by fetch_studies
    idx,           \* main: 1-based position of `s` in `for s in studies`
    details,       \* main: the payload of the last successful fetch_study_details
    intended_rph,  \* main: the local intended_rph of the current iteration
    out,           \* the records written to the CSV file, in order
    count,         \* main (report): the running count of rows
    summary,       \* the final "Wrote rows for count/total" log record, if any
    exit_status,   \* "none" while running, then "zero" or "nonzero"
    reqs           \* history: every HTTP request issued so far with its outcome

vars == <<prog, pages, pc, url, fetched, studies, idx, details, intended_rph,
          out, count, summary, exit_status, reqs>>

Header == [kind |-> "header", study_id |-> None, pos |-> 0]

\* a data row; pos records the listing position the row was written for
Row(s, p) == [kind |-> "row", study_id |-> s.id, pos |-> p]

Req(k, a, r) == [kind |-> k, arg |-> a, ok |-> r]

\* the file as opened by main: the header is written right after the open
OpenOutput_no_header == <<>>

OpenOutput == <<Header>>

\* writer.writerow(row)
WriteRow_newest_first(o, r) == <<Head(o), r>> \o Tail(o)

WriteRow(o, r) == Append(o, r)

\* the closing log line of the report script; the cost script prints only the path
Summary_total_only(c, st) == <<[count |-> Len(st), total |-> Len(st)]>>

Summary(c, st) == <<[count |-> c, total |-> Len(st)]>>

Init ==
    /\ prog \in Programs
    /\ pages \in PageChains
    /\ pc = "project"
    /\ url = None
    /\ fetched = <<>>
    /\ studies = <<>>
    /\ idx = 0
    /\ details = [reward |-> 0, estimated_completion_time |-> 0]
    /\ intended_rph = Zero
    /\ out = <<>>
    /\ count = 0
    /\ summary = <<>>
    /\ exit_status = "none"
    /\ reqs = <<>>

\* fetch_project_name succeeds; main goes on to fetch_studies, whose first URL is the base URL
FetchProjectOk ==
    /\ pc = "project"
    /\ reqs' = Append(reqs, Req("project", 0, TRUE))
    /\ pc' = "list"
    /\ url' = 1
    /\ fetched' = <<>>
    /\ UNCHANGED <<prog, pages, studies, idx, details, intended_rph, out, count,
                   summary, exit_status>>

\* report: fetch_project_name raises HTTPError, main logs it and calls sys.exit(1)
FetchProjectFailExit ==
    /\ pc = "project"
    /\ prog = "report"
    /\ reqs' = Append(reqs, Req("project", 0, FALSE))
    /\ pc' = "aborted"
    /\ exit_status' = "nonzero"
    /\ UNCHANGED <<prog, pages, url, fetched, studies, idx, details, intended_rph,
                   out, count, summary>>

\* cost: fetch_project_name raises, main prints the error and returns normally
FetchProjectFailReturn ==
    /\ pc = "project"
    /\ prog = "cost"
    /\ reqs' = Append(reqs, Req("project", 0, FALSE))
    /\ pc' = "aborted"
    /\ exit_status' = "zero"
    /\ UNCHANGED <<prog, pages, url, fetched, studies, idx, details, intended_rph,
                   out, count, summary>>

FetchPageOk_first_page_only ==
    /\ pc = "list"
    /\ url # None
    /\ LET payload == pages[url]
       IN /\ reqs' = Append(reqs, Req("page", url, TRUE))
          /\ fetched' = fetched \o payload.results
          /\ url' = None
          /\ studies' = fetched'
          /\ out' = OpenOutput
          /\ count' = 0
          /\ idx' = 1
          /\ pc' = "detail"
    /\ UNCHANGED <<prog, pages, details, intended_rph, summary, exit_status>>

\* one iteration of fetch_studies' while loop; when the page has no next link
\* the loop ends, fetch_studies returns and main opens the file and writes the header
FetchPageOk ==
    /\ pc = "list"
    /\ url # None
    /\ LET payload == pages[url]
       IN /\ reqs' = Append(reqs, Req("page", url, TRUE))
          /\ fetched' = fetched \o payload.results
          /\ url' = payload.next
          /\ IF payload.next = None
             THEN /\ studies' = fetched'
                  /\ out' = OpenOutput
                  /\ count' = 0
                  /\ idx' = 1
                  /\ pc' = "detail"
             ELSE UNCHANGED <<studies, out, count, idx, pc>>
    /\ UNCHANGED <<prog, pages, details, intended_rph, summary, exit_status>>

\* a listing request is refused: the HTTPError leaves fetch_studies and main uncaught
FetchPageFail ==
    /\ pc = "list"
    /\ url # None
    /\ reqs' = Append(reqs, Req("page", url, FALSE))
    /\ fetched' = <<>>
    /\ pc' = "aborted"
    /\ exit_status' = "nonzero"
    /\ UNCHANGED <<prog, pages, url, studies, idx, details, intended_rph, out,
                   count, summary>>

\* fetch_study_details succeeds; the metrics are derived before the cost request
FetchDetailOk ==
    /\ pc = "detail"
    /\ idx <= Len(studies)
    /\ \E payload \in DetailPayloads :
          /\ details' = payload
          /\ intended_rph' = intended_rph_of(reward_usd(payload), est_hours(payload))
    /\ reqs' = Append(reqs, Req("detail", idx, TRUE))
    /\ pc' = "cost"
    /\ UNCHANGED <<prog, pages, url, fetched, studies, idx, out, count, summary,
                   exit_status>>

FetchDetailFail_aborts ==
    /\ pc = "detail"
    /\ idx <= Len(studies)
    /\ reqs' = Append(reqs, Req("detail", idx, FALSE))
    /\ pc' = "aborted"
    /\ exit_status' = "nonzero"
    /\ UNCHANGED <<prog, pages, url, fetched, studies, idx, details, intended_rph,
                   out, count, summary>>

FetchDetailFail_retries ==
    /\ pc = "detail"
    /\ idx <= Len(studies)
    /\ Len(reqs) < 2 * (MaxPages * MaxPageSize) + MaxPages + 2
    /\ reqs' = Append(reqs, Req("detail", idx, FALSE))
    /\ UNCHANGED <<prog, pages, pc, url, fetched, studies, idx, details, intended_rph,
                   out, count, summary, exit_status>>

\* fetch_study_details raises: the error is reported and the loop goes to the next study
FetchDetailFail ==
    /\ pc = "detail"
    /\ idx <= Len(studies)
    /\ reqs' = Append(reqs, Req("detail", idx, FALSE))
    /\ idx' = idx + 1
    /\ UNCHANGED <<prog, pages, pc, url, fetched, studies, details, intended_rph,
                   out, count, summary, exit_status>>

\* get_total_rewards succeeds: the row is built, counted and written
FetchCostOk ==
    /\ pc = "cost"
    /\ reqs' = Append(reqs, Req("cost", idx, TRUE))
    /\ count' = IF prog = "report" THEN count + 1 ELSE count
    /\ out' = WriteRow(out, Row(studies[idx], idx))
    /\ idx' = idx + 1
    /\ pc' = "detail"
    /\ UNCHANGED <<prog, pages, url, fetched, studies, details, intended_rph,
                   summary, exit_status>>

FetchCostFail_writes_row ==
    /\ pc = "cost"
    /\ reqs' = Append(reqs, Req("cost", idx, FALSE))
    /\ count' = IF prog = "report" THEN count + 1 ELSE count
    /\ out' = WriteRow(out, Row(studies[idx], idx))
    /\ idx' = idx + 1
    /\ pc' = "detail"
    /\ UNCHANGED <<prog, pages, url, fetched, studies, details, intended_rph,
                   summary, exit_status>>

\* get_total_rewards raises outside any try block: the HTTPError leaves main uncaught
FetchCostFail ==
    /\ pc = "cost"
    /\ reqs' = Append(reqs, Req("cost", idx, FALSE))
    /\ pc' = "aborted"
    /\ exit_status' = "nonzero"
    /\ UNCHANGED <<prog, pages, url, fetched, studies, idx, details, intended_rph,
                   out, count, summary>>

\* the for loop is exhausted: the file is closed and the closing line is logged
Finish ==
    /\ pc = "detail"
    /\ idx > Len(studies)
    /\ summary' = IF prog = "report" THEN Summary(count, studies) ELSE <<>>
    /\ pc' = "done"
    /\ exit_status' = "zero"
    /\ UNCHANGED <<prog, pages, url, fetched, studies, idx, details, intended_rph,
                   out, count, reqs>>

Next ==
    \/ FetchProjectOk
    \/ FetchProjectFailExit
    \/ FetchProjectFailReturn
    \/ FetchPageOk
    \/ FetchPageFail
    \/ FetchDetailOk
    \/ FetchDetailFail
    \/ FetchCostOk
    \/ FetchCostFail
    \/ Finish

Spec == Init /\ [][Next]_vars

\* ---- vocabulary of the properties ----
Positions == 1..Len(studies)

Succeeded(k, a) == \E i \in DOMAIN reqs : reqs[i] = Req(k, a, TRUE)

Failed(k, a) == \E i \in DOMAIN reqs : reqs[i] = Req(k, a, FALSE)

Requests(k) == SelectSeq(reqs, LAMBDA r : r.kind = k)

IsRow(r) == r.kind = "row"

DataRows == SelectSeq(out, IsRow)

RowIds == [i \in 1..Len(DataRows) |-> DataRows[i].study_id]

HasRow(p) == \E i \in DOMAIN out : out[i].kind = "row" /\ out[i].pos = p

\* fetch_studies has returned to main, which has reached its for loop
ListingReturned == idx >= 1

\* the concatenation of the results of pages k, k+1, ... of the chain
RECURSIVE ConcatFrom(_)
ConcatFrom(k) ==
    IF k > Len(pages) THEN <<>> ELSE pages[k].results \o ConcatFrom(k + 1)

\* the identifiers of the listed studies p, p+1, ... whose two fetches succeeded
RECURSIVE CompletedIdsFrom(_)
CompletedIdsFrom(p) ==
    IF p > Len(studies) THEN <<>>
    ELSE IF Succeeded("detail", p) /\ Succeeded("cost", p)
         THEN <<studies[p].id>> \o CompletedIdsFrom(p + 1)
         ELSE CompletedIdsFrom(p + 1)

Rank(k) == IF k = "project" THEN 0 ELSE IF k = "page" THEN 1 ELSE 2

\* ---- C1 ----
\* C1: on a chain of listing pages whose requests all succeed, fetch_studies
\* returns the concatenation of the pages' results in page order, having
\* requested every page exactly once; while it runs, the pages requested so far
\* are a proper prefix of the chain, so it returns after at most Len(pages)
\* requests.
C1_ListerConcatenatesPages ==
    /\ ListingReturned =>
          /\ studies = ConcatFrom(1)
          /\ Requests("page") = [k \in 1..Len(pages) |-> Req("page", k, TRUE)]
    /\ pc = "list" =>
          /\ url \in 1..Len(pages)
          /\ Requests("page") = [k \in 1..(url - 1) |-> Req("page", k, TRUE)]
          /\ fetched \o ConcatFrom(url) = ConcatFrom(1)

C1_Witness ==
    /\ ListingReturned
    /\ Len(pages) >= 2
    /\ \A k \in 1..Len(pages) : Len(pages[k].results) >= 1
    /\ Len(studies) >= 3

\* ---- C2 ----
\* C2: a study whose cost fetch failed is skipped: no row is written for it, the
\* loop has moved on to the next study and the run has not been aborted.
C2_CostFailureSkipsStudy ==
    \A p \in Positions :
        Failed("cost", p) => /\ ~HasRow(p)
                             /\ idx > p
                             /\ pc # "aborted"

\* ---- C3 ----
\* C3: a study whose detail fetch failed has no row, the loop has moved past it,
\* a run that stopped did not stop at it (an aborted run stopped at a later
\* study's cost request), and a run that reached its end requested the details
\* of every study after it.
C3_DetailFailureSkipsStudy ==
    \A p \in Positions :
        Failed("detail", p) =>
            /\ ~HasRow(p)
            /\ idx > p
            /\ pc \in {"detail", "cost", "done", "aborted"}
            /\ pc = "aborted" =>
                  /\ reqs[Len(reqs)].kind = "cost"
                  /\ reqs[Len(reqs)].arg > p
            /\ pc = "done" =>
                  \A q \in Positions :
                      q > p => Succeeded("detail", q) \/ Failed("detail", q)

C3_Witness ==
    /\ pc = "done"
    /\ \E p, q \in Positions : p < q /\ Failed("detail", p) /\ HasRow(q)
    /\ \E p, q \in Positions : p < q /\ Failed("detail", p) /\ Failed("detail", q)

\* ---- C4 ----
\* C4: after a failed project request or a failed listing request the run has
\* ended with a non-zero status, no data row is written, no detail or cost
\* request is issued and main holds no study of the pages already fetched.
C4_FatalFailureEndsRunNonZero ==
    (Failed("project", 0) \/ \E u \in 1..Len(pages) : Failed("page", u)) =>
        /\ pc = "aborted"
        /\ exit_status = "nonzero"
        /\ DataRows = <<>>
        /\ Requests("detail") = <<>>
        /\ Requests("cost") = <<>>
        /\ studies = <<>>

\* ---- C5 ----
\* C5: once the listing has returned, the header is the first record of the
\* output and occurs exactly once; it is there whenever a per-study request has
\* been issued, and also when the listing is empty or every study fails.
C5_HeaderFirstExactlyOnce ==
    /\ ListingReturned =>
          /\ Len(out) >= 1
          /\ out[1] = Header
          /\ \A i \in DOMAIN out : i > 1 => out[i].kind = "row"
    /\ (Requests("detail") # <<>> \/ Requests("cost") # <<>>) =>
          (out # <<>> /\ out[1] = Header)

C5_Witness ==
    /\ pc = "done"
    /\ Len(studies) >= 2
    /\ \A p \in Positions : Failed("detail", p)
    /\ out = <<Header>>

\* ---- C6 ----
\* C6: every data row of the output was written for a listed study whose detail
\* request and cost request have both succeeded, in every state of every run.
C6_NoPartialRow ==
    \A i \in DOMAIN out :
        out[i].kind = "row" =>
            /\ out[i].pos \in Positions
            /\ out[i].study_id = studies[out[i].pos].id
            /\ Succeeded("detail", out[i].pos)
            /\ Succeeded("cost", out[i].pos)
            /\ ~Failed("detail", out[i].pos)
            /\ ~Failed("cost", out[i].pos)

C6_Witness ==
    /\ pc = "aborted"
    /\ Len(DataRows) >= 1
    /\ \E p \in Positions : Failed("cost", p)

\* ---- C7 ----
\* C7: at the end of a completed run the identifiers of the data rows are the
\* listing restricted to the studies whose detail and cost fetches succeeded, in
\* listing order; without repeated identifiers in the listing no identifier has
\* two rows.
C7_RowsAreListingOrder ==
    pc = "done" =>
        /\ RowIds = CompletedIdsFrom(1)
        /\ (\A p, q \in Positions : p # q => studies[p].id # studies[q].id) =>
              (\A i, j \in 1..Len(RowIds) : i # j => RowIds[i] # RowIds[j])

C7_Witness ==
    /\ pc = "done"
    /\ Len(DataRows) >= 2
    /\ RowIds[1] # RowIds[2]
    /\ \E p \in Positions : Failed("detail", p)

\* ---- C8 ----
\* C8 as claimed: the derived intended_rph is reward_usd / est_hours when
\* est_hours > 0 and exactly 0 otherwise.
C8_ZeroUnlessPositiveHours ==
    (\E p \in Positions : Succeeded("detail", p)) =>
        IF details.estimated_completion_time > 0
        THEN /\ intended_rph.d > 0
             /\ intended_rph.n * details.estimated_completion_time * 100
                   = details.reward * 60 * intended_rph.d
        ELSE intended_rph = Zero

\* C8 as amended: the derived intended_rph is reward_usd / est_hours whenever
\* est_hours is not zero, negative hours included, and exactly 0 when the
\* estimated completion time is 0.
C8_ZeroOnlyForZeroHours ==
    (\E p \in Positions : Succeeded("detail", p)) =>
        IF details.estimated_completion_time # 0
        THEN /\ intended_rph.d > 0
             /\ intended_rph.n * details.estimated_completion_time * 100
                   = details.reward * 60 * intended_rph.d
        ELSE intended_rph = Zero

C8_Witness ==
    /\ pc = "cost"
    /\ details.estimated_completion_time = 0
    /\ details.reward # 0
    /\ intended_rph = Zero

\* ---- C9 ----
\* C9: when the report script finishes its loop, the logged count is the number
\* of data rows, the logged total is the number of listed studies, the count
\* does not exceed the total and the difference is the number of skipped
\* studies.
C9_SummaryCountsRows ==
    (prog = "report" /\ pc = "done") =>
        /\ summary = <<[count |-> Len(DataRows), total |-> Len(studies)]>>
        /\ summary[1].count <= summary[1].total
        /\ summary[1].total - summary[1].count
              = Cardinality({p \in Positions : Failed("detail", p)})

C9_Witness ==
    /\ prog = "report"
    /\ pc = "done"
    /\ summary # <<>>
    /\ summary[1].count >= 1
    /\ summary[1].count < summary[1].total

\* ---- C10 ----
\* C10: the requests of a run are, in order, one project request, the listing
\* page requests, then per listed study in listing order one detail request
\* followed, only when it succeeded, by one cost request; no request is issued
\* twice, nothing follows a failed project, page or cost request, and no request
\* for a study is issued before every earlier study has its row or was skipped.
C10_FixedOrderNoRetry ==
    /\ reqs # <<>> => reqs[1].kind = "project"
    /\ \A i, j \in DOMAIN reqs :
          i < j =>
             /\ Rank(reqs[i].kind) <= Rank(reqs[j].kind)
             /\ <<reqs[i].kind, reqs[i].arg>> # <<reqs[j].kind, reqs[j].arg>>
             /\ reqs[i].ok \/ reqs[i].kind = "detail"
             /\ Rank(reqs[i].kind) = 2 =>
                   /\ reqs[i].arg <= reqs[j].arg
                   /\ reqs[i].arg = reqs[j].arg =>
                         (reqs[i].kind = "detail" /\ reqs[j].kind = "cost")
    /\ \A j \in DOMAIN reqs :
          /\ reqs[j].kind = "cost" => (j > 1 /\ reqs[j - 1] = Req("detail", reqs[j].arg, TRUE))
          /\ Rank(reqs[j].kind) = 2 =>
                \A q \in 1..(reqs[j].arg - 1) : HasRow(q) \/ Failed("detail", q)
    /\ pc = "done" =>
          \A p \in Positions :
              Len(SelectSeq(reqs, LAMBDA r : r.kind = "detail" /\ r.arg = p)) = 1

C10_Witness ==
    /\ pc = "done"
    /\ Len(pages) >= 2
    /\ \E p, q \in Positions : p < q /\ Failed("detail", p) /\ Succeeded("cost", q)
    /\ Len(Requests("cost")) >= 2

====
